---- MODULE Spec2Model ----
(***************************************************************************)
(* State-machine model of the SFML snake game in src/main.cpp.             *)
(*                                                                         *)
(* Time is fixed point: one unit is a microsecond, so the float literals   *)
(* 0.12f, 0.04f and 0.92f become 120000, 40000 and the ratio 92/100.       *)
(* A Vec2i is a record [x, y].  Sequences are 1-based: body[1] is the      *)
(* head (std::deque front).  pc is the position of main: polling events,   *)
(* in the movement loop, rendering, returned, or spinning in placeFood.    *)
(* restarted holds exactly in the state the restart branch of the R key    *)
(* leaves.  cmd and idleSteps observe the input: cmd is the latest         *)
(* direction key that reached setDirection since the last step ("none"     *)
(* when there is none, "off" in the specifications that do not observe     *)
(* it); idleSteps is -1 while key events may still arrive and otherwise    *)
(* the number of steps executed since they stopped.                        *)
(***************************************************************************)
EXTENDS Integers, Sequences, FiniteSets, TLC

VARIABLES cfg, snake, food, score, paused, gameOver, acc, open, pc, restarted,
          cmd, idleSteps

vars == <<cfg, snake, food, score, paused, gameOver, acc, open, pc, restarted,
          cmd, idleSteps>>

(***************************************************************************)
(* Bounds of the model.                                                    *)
(***************************************************************************)
\* grid of the small model (the program's grid is RealCols x RealRows)
Cols == 8
Rows == 2
\* behaviours are explored while the score stays at or below this value
MaxScore == 10
\* the same for the specifications SpecEat and SpecAccel
MaxEatScore == 20
MaxAccelScore == 50
\* SpecAccel: how many cells ahead of the start cell the generator draws from
AccelDraws == 6
\* frames are explored while the accumulator stays at or below this value
MaxAcc == 240000

(***************************************************************************)
(* Program constants.                                                      *)
(***************************************************************************)
RealCols == 32
RealRows == 24
InitialMoveInterval == 120000
MinMoveInterval == 40000
InitialLength == 5
FoodReward == 10
SpeedUpEvery == 50

\* elapsed times moveClock.restart() may report: half an initial interval,
\* one and a half
DtSet == {60000, 180000}

Events == {"Closed", "Escape", "P", "R", "Up", "W", "Down", "S",
           "Left", "A", "Right", "D", "Other"}

GameConfig(c, r) == [cols |-> c, rows |-> r, moveInterval |-> InitialMoveInterval]

Vec2i(a, b) == [x |-> a, y |-> b]

Add(p, d) == Vec2i(p.x + d.x, p.y + d.y)

Neg(d) == Vec2i(0 - d.x, 0 - d.y)

(***************************************************************************)
(* class Snake                                                             *)
(***************************************************************************)
Snake(start, initialLength) ==
    [body     |-> [i \in 1..initialLength |-> Vec2i(start.x - (i - 1), start.y)],
     dir      |-> Vec2i(1, 0),
     growNext |-> FALSE]

head(s) == s.body[1]

\* the reversal test left out
setDirection_NoGuard(s, d) == [s EXCEPT !.dir = d]

setDirection(s, d) ==
    IF Len(s.body) > 1 /\ d = Neg(s.dir) THEN s ELSE [s EXCEPT !.dir = d]

\* move without body.pop_back()
move_NeverPops(s) ==
    LET newHead == Add(head(s), s.dir)
    IN  [s EXCEPT !.body = <<newHead>> \o s.body, !.growNext = FALSE]

\* move without growNext = false
move_KeepsGrowNext(s) ==
    LET newHead == Add(head(s), s.dir)
        pushed  == <<newHead>> \o s.body
    IN  [s EXCEPT !.body = IF s.growNext THEN pushed
                           ELSE SubSeq(pushed, 1, Len(pushed) - 1)]

move(s) ==
    LET newHead == Add(head(s), s.dir)
        pushed  == <<newHead>> \o s.body
    IN  [s EXCEPT !.body = IF s.growNext THEN pushed
                           ELSE SubSeq(pushed, 1, Len(pushed) - 1),
                  !.growNext = FALSE]

\* grow without setting the flag
grow_Noop(s) == s

grow(s) == [s EXCEPT !.growNext = TRUE]

\* the loop stops one segment short of the tail
collidesWithSelf_SkipsTail(s) == \E i \in 2..(Len(s.body) - 1) : s.body[i] = head(s)

collidesWithSelf(s) == \E i \in 2..Len(s.body) : s.body[i] = head(s)

occupies(s, p) == \E i \in 1..Len(s.body) : s.body[i] = p

(***************************************************************************)
(* main                                                                    *)
(***************************************************************************)
startPos(c) == Vec2i(c.cols \div 2, c.rows \div 2)

\* the values rng.nextInt(a, b) may return
nextInt(a, b) == a..b

AllCells(c) == {Vec2i(x, y) : x \in nextInt(0, c.cols - 1), y \in nextInt(0, c.rows - 1)}

\* the occupancy test left out
placeFood_AnyCell(s, draws) == draws

\* the cells placeFood may assign to food: a drawn cell the snake does not
\* occupy.  When there is none the while (true) loop never exits.
placeFood(s, draws) == {p \in draws : ~occupies(s, p)}

\* > in place of >= on the right and bottom edges
outOfBounds_OffByOne(h, c) == h.x < 0 \/ h.x > c.cols \/ h.y < 0 \/ h.y > c.rows

outOfBounds(h, c) == h.x < 0 \/ h.x >= c.cols \/ h.y < 0 \/ h.y >= c.rows

\* cfg.moveInterval *= 0.92f
speedUp(interval) == (interval * 92) \div 100

\* if (score % 50 == 0 && cfg.moveInterval > 0.04f) cfg.moveInterval *= 0.92f
accelerate(sc, interval) ==
    IF sc % SpeedUpEvery = 0 /\ interval > MinMoveInterval
    THEN speedUp(interval) ELSE interval

\* the key tests of the event loop: W, S, A and D are tested together with
\* the arrow keys, and a window-close event does what Escape does
Key(e) ==
    CASE e = "W" -> "Up"
      [] e = "S" -> "Down"
      [] e = "A" -> "Left"
      [] e = "D" -> "Right"
      [] e = "Closed" -> "Escape"
      [] OTHER -> e

Keys == {Key(e) : e \in Events}

KeyDirection(k) ==
    CASE k = "Up"    -> Vec2i(0, -1)
      [] k = "Down"  -> Vec2i(0, 1)
      [] k = "Left"  -> Vec2i(-1, 0)
      [] k = "Right" -> Vec2i(1, 0)

IsDirectionKey(k) == k \in {"Up", "Down", "Left", "Right"}

InitWith(c, draws) ==
    /\ cfg = c
    /\ snake = Snake(startPos(c), InitialLength)
    /\ food \in placeFood(Snake(startPos(c), InitialLength), draws)
    /\ score = 0
    /\ paused = FALSE
    /\ gameOver = FALSE
    /\ acc = 0
    /\ open = TRUE
    /\ pc = "events"
    /\ restarted = FALSE
    /\ idleSteps = -1

\* window.close() on Closed or Escape
CloseWindow(e) ==
    /\ pc = "events" /\ open
    /\ e = "Escape"
    /\ open' = FALSE
    /\ restarted' = FALSE
    /\ UNCHANGED <<cfg, snake, food, score, paused, gameOver, acc, pc, cmd, idleSteps>>

\* P: paused = !paused; the direction branch does not match P
TogglePause(e) ==
    /\ pc = "events" /\ open
    /\ e = "P"
    /\ paused' = ~paused
    /\ restarted' = FALSE
    /\ UNCHANGED <<cfg, snake, food, score, gameOver, acc, open, pc, cmd, idleSteps>>

\* restart without paused = false
Restart_KeepsPaused(e, draws) ==
    /\ pc = "events" /\ open
    /\ e = "R"
    /\ snake' = Snake(startPos(cfg), InitialLength)
    /\ IF placeFood(snake', draws) = {}
       THEN /\ pc' = "placeFood"
            /\ restarted' = FALSE
            /\ UNCHANGED <<food, score, paused, gameOver>>
       ELSE /\ food' \in placeFood(snake', draws)
            /\ score' = 0
            /\ gameOver' = FALSE
            /\ pc' = pc
            /\ restarted' = TRUE
            /\ UNCHANGED paused
    /\ cmd' = IF cmd # "off" THEN "none" ELSE cmd
    /\ UNCHANGED <<cfg, acc, open, idleSteps>>

\* R: restart.  placeFood spins forever when no drawn cell is free.
Restart(e, draws) ==
    /\ pc = "events" /\ open
    /\ e = "R"
    /\ snake' = Snake(startPos(cfg), InitialLength)
    /\ IF placeFood(snake', draws) = {}
       THEN /\ pc' = "placeFood"
            /\ restarted' = FALSE
            /\ UNCHANGED <<food, score, paused, gameOver>>
       ELSE /\ food' \in placeFood(snake', draws)
            /\ score' = 0
            /\ paused' = FALSE
            /\ gameOver' = FALSE
            /\ pc' = pc
            /\ restarted' = TRUE
    /\ cmd' = IF cmd # "off" THEN "none" ELSE cmd
    /\ UNCHANGED <<cfg, acc, open, idleSteps>>

\* direction keys reach setDirection only while !gameOver
DirectionKey(e) ==
    /\ pc = "events" /\ open
    /\ IsDirectionKey(e)
    /\ snake' = IF ~gameOver THEN setDirection(snake, KeyDirection(e)) ELSE snake
    /\ cmd' = IF ~gameOver /\ cmd # "off" THEN e ELSE cmd
    /\ restarted' = FALSE
    /\ UNCHANGED <<cfg, food, score, paused, gameOver, acc, open, pc, idleSteps>>

\* any other event or key
OtherEvent(e) ==
    /\ pc = "events" /\ open
    /\ e = "Other"
    /\ restarted' = FALSE
    /\ UNCHANGED <<cfg, snake, food, score, paused, gameOver, acc, open, pc, cmd, idleSteps>>

PollEvent(e, draws) ==
    \/ CloseWindow(e)
    \/ TogglePause(e)
    \/ Restart(e, draws)
    \/ DirectionKey(e)
    \/ OtherEvent(e)

\* the test of while (acc >= cfg.moveInterval): the position the update
\* phase is at once acc and the interval have the values a and interval
loopTest(a, interval) == IF a >= interval THEN "loop" ELSE "render"

\* the update guard tests gameOver only
UpdateRun_IgnoresPaused(dt) ==
    /\ pc = "events"
    /\ ~gameOver
    /\ acc' = acc + dt
    /\ acc' <= MaxAcc
    /\ pc' = loopTest(acc', cfg.moveInterval)
    /\ restarted' = FALSE
    /\ UNCHANGED <<cfg, snake, food, score, paused, gameOver, open, cmd, idleSteps>>

\* pollEvent returns no event (a closed window delivers none), then
\* if (!paused && !gameOver) { dt = moveClock.restart(); acc += dt; ...
UpdateRun(dt) ==
    /\ pc = "events"
    /\ ~paused /\ ~gameOver
    /\ acc' = acc + dt
    /\ acc' <= MaxAcc
    /\ pc' = loopTest(acc', cfg.moveInterval)
    /\ restarted' = FALSE
    /\ UNCHANGED <<cfg, snake, food, score, paused, gameOver, open, cmd, idleSteps>>

\* ... } else { moveClock.restart(); }
UpdateSkip ==
    /\ pc = "events"
    /\ paused \/ gameOver
    /\ pc' = "render"
    /\ restarted' = FALSE
    /\ UNCHANGED <<cfg, snake, food, score, paused, gameOver, acc, open, cmd, idleSteps>>

\* the update loop without the two break statements
LoopStep_NoBreak(draws, cap) ==
    /\ pc = "loop"
    /\ acc' = acc - cfg.moveInterval
    /\ LET moved == move(snake)
           h     == head(moved)
       IN  IF outOfBounds(h, cfg) \/ collidesWithSelf(moved)
           THEN /\ snake' = moved
                /\ gameOver' = TRUE
                /\ pc' = loopTest(acc', cfg.moveInterval)
                /\ UNCHANGED <<cfg, food, score>>
           ELSE IF h = food
           THEN /\ snake' = grow(moved)
                /\ score' = score + FoodReward
                /\ score' <= cap
                /\ IF placeFood(snake', draws) = {}
                   THEN /\ pc' = "placeFood"
                        /\ UNCHANGED <<cfg, food>>
                   ELSE /\ food' \in placeFood(snake', draws)
                        /\ cfg' = [cfg EXCEPT !.moveInterval = accelerate(score', @)]
                        /\ pc' = loopTest(acc', cfg'.moveInterval)
                /\ UNCHANGED gameOver
           ELSE /\ snake' = moved
                /\ pc' = loopTest(acc', cfg.moveInterval)
                /\ UNCHANGED <<cfg, food, score, gameOver>>
    /\ cmd' = IF cmd # "off" THEN "none" ELSE cmd
    /\ idleSteps' = IF idleSteps >= 0 THEN idleSteps + 1 ELSE idleSteps
    /\ UNCHANGED <<paused, open, restarted>>

\* one iteration of while (acc >= cfg.moveInterval), up to the next test of
\* the loop condition
LoopStep(draws, cap) ==
    /\ pc = "loop"
    /\ acc' = acc - cfg.moveInterval
    /\ LET moved == move(snake)
           h     == head(moved)
       IN  IF outOfBounds(h, cfg) \/ collidesWithSelf(moved)
           THEN /\ snake' = moved
                /\ gameOver' = TRUE
                /\ pc' = "render"
                /\ UNCHANGED <<cfg, food, score>>
           ELSE IF h = food
           THEN /\ snake' = grow(moved)
                /\ score' = score + FoodReward
                /\ score' <= cap
                /\ IF placeFood(snake', draws) = {}
                   THEN /\ pc' = "placeFood"
                        /\ UNCHANGED <<cfg, food>>
                   ELSE /\ food' \in placeFood(snake', draws)
                        /\ cfg' = [cfg EXCEPT !.moveInterval = accelerate(score', @)]
                        /\ pc' = loopTest(acc', cfg'.moveInterval)
                /\ UNCHANGED gameOver
           ELSE /\ snake' = moved
                /\ pc' = loopTest(acc', cfg.moveInterval)
                /\ UNCHANGED <<cfg, food, score, gameOver>>
    /\ cmd' = IF cmd # "off" THEN "none" ELSE cmd
    /\ idleSteps' = IF idleSteps >= 0 THEN idleSteps + 1 ELSE idleSteps
    /\ UNCHANGED <<paused, open, restarted>>

\* the loop test left out: the main loop goes on after the window closed
Render_IgnoresClose ==
    /\ pc = "render"
    /\ pc' = "events"
    /\ UNCHANGED <<cfg, snake, food, score, paused, gameOver, acc, open, restarted, cmd, idleSteps>>

\* render, display, then the test of while (window.isOpen())
Render ==
    /\ pc = "render"
    /\ pc' = IF open THEN "events" ELSE "done"
    /\ UNCHANGED <<cfg, snake, food, score, paused, gameOver, acc, open, restarted, cmd, idleSteps>>

Init ==
    /\ InitWith(GameConfig(Cols, Rows), AllCells(GameConfig(Cols, Rows)))
    /\ cmd = "off"

Next ==
    \/ \E k \in Keys : PollEvent(k, AllCells(cfg))
    \/ \E dt \in DtSet : UpdateRun(dt)
    \/ UpdateSkip
    \/ LoopStep(AllCells(cfg), MaxScore)
    \/ Render

Spec == Init /\ [][Next]_vars

(***************************************************************************)
(* SpecEat: the small grid with direction and restart keys only and frames *)
(* that last one move interval, explored to a higher score.                *)
(***************************************************************************)
EatKeys == {"Up", "Down", "Left", "Right", "R"}

NextEat ==
    \/ \E k \in EatKeys : Restart(k, AllCells(cfg))
    \/ \E k \in EatKeys : DirectionKey(k)
    \/ UpdateRun(cfg.moveInterval)
    \/ UpdateSkip
    \/ LoopStep(AllCells(cfg), MaxEatScore)
    \/ Render

SpecEat == Init /\ [][NextEat]_vars

(***************************************************************************)
(* SpecAccel: the program's 32 x 24 grid, the restart key only, frames     *)
(* that last one move interval, and the generator drawing cells of the     *)
(* start row just ahead of the start cell, so that the score reaches the   *)
(* speed-up threshold game after game.                                     *)
(***************************************************************************)
RowAhead(c) ==
    {Vec2i(startPos(c).x + i, startPos(c).y) : i \in 1..AccelDraws} \cap AllCells(c)

InitAccel ==
    /\ InitWith(GameConfig(RealCols, RealRows), RowAhead(GameConfig(RealCols, RealRows)))
    /\ cmd = "off"

NextAccel ==
    \/ Restart("R", RowAhead(cfg))
    \/ UpdateRun(cfg.moveInterval)
    \/ UpdateSkip
    \/ LoopStep(RowAhead(cfg), MaxAccelScore)
    \/ Render

SpecAccel == InitAccel /\ [][NextAccel]_vars

(***************************************************************************)
(* SpecKeys: SpecEat with the direction keys observed in cmd.              *)
(***************************************************************************)
InitKeys ==
    /\ InitWith(GameConfig(Cols, Rows), AllCells(GameConfig(Cols, Rows)))
    /\ cmd = "none"

SpecKeys == InitKeys /\ [][NextEat]_vars

(***************************************************************************)
(* SpecFill: the small grid with direction keys only, frames that last one *)
(* move interval, and the generator drawing cells next to the head, so     *)
(* that the snake can grow until it covers the grid.  The score cannot     *)
(* exceed the cap given here.                                              *)
(***************************************************************************)
NextToHead(c, s) ==
    {p \in AllCells(c) :
        \E d \in {Vec2i(0, -1), Vec2i(0, 1), Vec2i(-1, 0), Vec2i(1, 0)} : p = Add(head(s), d)}

\* the draws of SpecFill: a cell next to the head while one of them is free,
\* any cell of the grid otherwise
FillDraws(c, s) ==
    IF placeFood(s, NextToHead(c, s)) # {} THEN NextToHead(c, s) ELSE AllCells(c)

InitFill ==
    /\ InitWith(GameConfig(Cols, Rows),
                FillDraws(GameConfig(Cols, Rows),
                           Snake(startPos(GameConfig(Cols, Rows)), InitialLength)))
    /\ cmd = "off"

NextFill ==
    \/ \E k \in {e \in Keys : IsDirectionKey(e)} : DirectionKey(k)
    \/ UpdateRun(cfg.moveInterval)
    \/ UpdateSkip
    \/ LoopStep(FillDraws(cfg, snake'), FoodReward * cfg.cols * cfg.rows)
    \/ Render

SpecFill == InitFill /\ [][NextFill]_vars

(***************************************************************************)
(* SpecIdle: SpecFill with a point after which the event queue stays       *)
(* empty.  StopKeys marks that point; idleSteps then counts the steps of   *)
(* the snake.  Frames keep coming: a frame that is due is eventually run,  *)
(* and so are the steps and the rendering it owes.                         *)
(***************************************************************************)
StopKeys ==
    /\ pc = "events" /\ open
    /\ idleSteps < 0
    /\ idleSteps' = 0
    /\ restarted' = FALSE
    /\ UNCHANGED <<cfg, snake, food, score, paused, gameOver, acc, open, pc, cmd>>

IdleStep == LoopStep(FillDraws(cfg, snake'), FoodReward * cfg.cols * cfg.rows)

NextIdle ==
    \/ \E k \in {e \in Keys : IsDirectionKey(e)} : idleSteps < 0 /\ DirectionKey(k)
    \/ StopKeys
    \/ UpdateRun(cfg.moveInterval)
    \/ UpdateSkip
    \/ IdleStep
    \/ Render

SpecIdle ==
    /\ InitFill
    /\ [][NextIdle]_vars
    /\ WF_vars(UpdateRun(cfg.moveInterval))
    /\ WF_vars(IdleStep)
    /\ WF_vars(Render)

(***************************************************************************)
(* Properties.                                                             *)
(***************************************************************************)

\* C1: a step never moves the head onto the cell of the snake's own second
\* segment, that is, never in the exact opposite of the previous step's
\* movement, whatever direction keys arrived between the two steps.
C1_NeverReverses ==
    [][(pc = "loop" /\ Len(snake.body) > 1) => snake'.body[1] # snake.body[2]]_vars

\* C2: after every complete step, unless the session is game over, the
\* positions of the body are pairwise distinct.
C2_BodyDistinct ==
    ~gameOver =>
        \A i, j \in 1..Len(snake.body) : i # j => snake.body[i] # snake.body[j]

\* a snake that has eaten, grown to six segments and turned out of its row,
\* still alive after the step
C2_Witness ==
    /\ ~gameOver
    /\ pc = "render"
    /\ Len(snake.body) = 6
    /\ snake.body[1].y # snake.body[6].y

\* C3: restart resets the move interval to its initial value 0.12.
C3_RestartResetsInterval == restarted => cfg.moveInterval = InitialMoveInterval

\* C4: restart leaves the session running with score 0, five segments laid
\* out to the left of the start cell (cols/2, rows/2), direction right, no
\* pending growth, and the food on a grid cell outside the new body.
C4_RestartResult ==
    restarted =>
        /\ ~paused /\ ~gameOver
        /\ score = 0
        /\ Len(snake.body) = 5
        /\ \A i \in 1..5 :
              snake.body[i] = [x |-> (cfg.cols \div 2) - (i - 1), y |-> cfg.rows \div 2]
        /\ snake.dir = [x |-> 1, y |-> 0]
        /\ ~snake.growNext
        /\ food.x \in 0..(cfg.cols - 1) /\ food.y \in 0..(cfg.rows - 1)
        /\ \A i \in 1..5 : snake.body[i] # food

\* a restart pressed after a game over: only a step that ended the game
\* leaves a whole interval in the accumulator
C4_Witness == restarted /\ acc >= cfg.moveInterval

\* C5: the move interval never goes below the floor 0.04.
C5_IntervalFloor == cfg.moveInterval >= MinMoveInterval

\* C6: a frame whose update phase finds the session paused or game over
\* ends with the accumulator at zero.
C6_AccDiscarded ==
    [][(pc = "events" /\ pc' = "render" /\ (paused \/ gameOver)) => acc' = 0]_vars

\* C7: a head outside the grid means game over: while the session is not
\* game over every body cell lies inside [0, cols) x [0, rows).
C7_InsideGrid ==
    ~gameOver =>
        \A i \in 1..Len(snake.body) :
            /\ snake.body[i].x \in 0..(cfg.cols - 1)
            /\ snake.body[i].y \in 0..(cfg.rows - 1)

\* a step has moved the head past the right edge and ended the game
C7_Witness == gameOver /\ snake.body[1].x = cfg.cols /\ pc = "render"

\* C8: no step from a paused or game-over session to a paused or game-over
\* session changes the body, the pending growth, the score, the food or the
\* move interval.
C8_NoStepWhileStopped ==
    [][((paused \/ gameOver) /\ (paused' \/ gameOver')) =>
          /\ snake'.body = snake.body
          /\ snake'.growNext = snake.growNext
          /\ score' = score
          /\ food' = food
          /\ cfg'.moveInterval = cfg.moveInterval]_vars

\* a frame has gone by with the session paused in mid game, time pending in
\* the accumulator
C8_Witness == paused /\ ~gameOver /\ pc = "render" /\ score > 0 /\ acc > 0

\* C9: between steps the food is on a grid cell that no body segment
\* occupies.
C9_FoodFree ==
    pc # "placeFood" =>
        /\ food.x \in 0..(cfg.cols - 1) /\ food.y \in 0..(cfg.rows - 1)
        /\ \A i \in 1..Len(snake.body) : snake.body[i] # food

\* the food has been relocated after being eaten, and the snake has grown
C9_Witness == score = 10 /\ Len(snake.body) = 6 /\ ~gameOver

\* C10 as stated: a step that lands on the food without collision adds 10 to
\* the score and leaves the body length as it was.
C10_EatKeepsLength ==
    [][(pc = "loop" /\ ~gameOver' /\ snake'.body[1] = food) =>
          /\ score' = score + 10
          /\ Len(snake'.body) = Len(snake.body)]_vars

\* C10 amended: a step that lands on the food without collision adds 10 to
\* the score and leaves growth pending; no other step changes the score or
\* leaves growth pending; and every step lengthens the body by 1 if growth
\* was pending when it started and by 0 otherwise.
C10_EatThenGrow ==
    [][pc = "loop" =>
          /\ (~gameOver' /\ snake'.body[1] = food) =>
                (score' = score + 10 /\ snake'.growNext)
          /\ ~(~gameOver' /\ snake'.body[1] = food) =>
                (score' = score /\ ~snake'.growNext)
          /\ Len(snake'.body) = Len(snake.body) + (IF snake.growNext THEN 1 ELSE 0)]_vars

\* two foods eaten by consecutive steps: the second eating step grew the body
C10_Witness == score = 20 /\ snake.growNext /\ Len(snake.body) = 6

\* C11: a step that starts with no growth pending and neither collides nor
\* lands on the food puts the old head plus the direction in front of the
\* old body without its last segment, and leaves score, food and move
\* interval as they were.
C11_PlainStep ==
    [][(pc = "loop" /\ ~snake.growNext /\ ~gameOver' /\ snake'.body[1] # food) =>
          /\ snake'.body =
                <<[x |-> snake.body[1].x + snake.dir.x,
                   y |-> snake.body[1].y + snake.dir.y]>>
                \o SubSeq(snake.body, 1, Len(snake.body) - 1)
          /\ Len(snake'.body) = Len(snake.body)
          /\ score' = score
          /\ food' = food
          /\ cfg'.moveInterval = cfg.moveInterval]_vars

\* the snake has turned up out of its start row by plain steps
C11_Witness ==
    /\ ~gameOver /\ score = 0 /\ Len(snake.body) = 5
    /\ snake.body[1].y = (cfg.rows \div 2) - 1
    /\ pc = "render"

\* C12: a direction key that reaches setDirection leaves the stored
\* direction alone when it is the exact opposite of it (the body being
\* longer than 1) and otherwise stores its own direction; it changes nothing
\* of body, pending growth, score, food, move interval and session flags.
C12_SetDirection ==
    [][(cmd' # cmd /\ cmd' # "none") =>
          LET d == CASE cmd' = "Up"    -> [x |-> 0, y |-> -1]
                     [] cmd' = "Down"  -> [x |-> 0, y |-> 1]
                     [] cmd' = "Left"  -> [x |-> -1, y |-> 0]
                     [] cmd' = "Right" -> [x |-> 1, y |-> 0]
          IN  /\ snake'.dir =
                    IF /\ Len(snake.body) > 1
                       /\ d.x = 0 - snake.dir.x /\ d.y = 0 - snake.dir.y
                    THEN snake.dir ELSE d
              /\ snake'.body = snake.body
              /\ snake'.growNext = snake.growNext
              /\ score' = score /\ food' = food /\ cfg' = cfg
              /\ paused' = paused /\ gameOver' = gameOver]_vars

\* the latest key was Left while the stored direction was Right, and the
\* stored direction is still Right
C12_Witness == cmd = "Left" /\ snake.dir = [x |-> 1, y |-> 0] /\ Len(snake.body) > 1

\* C13: a step moves the head in the direction of the latest direction key
\* received since the step before it, whenever that direction is not the
\* reverse of the movement of the step before it.
C13_LatestCommandHonored ==
    [][(/\ pc = "loop"
        /\ cmd \notin {"none", "off"}
        /\ KeyDirection(cmd) # [x |-> snake.body[2].x - snake.body[1].x,
                                y |-> snake.body[2].y - snake.body[1].y]) =>
          snake'.body[1] = [x |-> snake.body[1].x + KeyDirection(cmd).x,
                            y |-> snake.body[1].y + KeyDirection(cmd).y]]_vars

\* C14: a pause toggle issued while the paused flag is set returns the
\* session to Running (neither paused nor game over).
C14_ResumeRuns ==
    [][(paused /\ ~paused' /\ ~restarted') => ~gameOver']_vars

\* C16: a step that detects a collision sets game over, leaves score, food
\* and move interval as they were, and ends the frame's loop whatever is
\* left in the accumulator.
C16_CollisionTerminal ==
    [][(pc = "loop" /\ gameOver') =>
          /\ score' = score
          /\ food' = food
          /\ cfg'.moveInterval = cfg.moveInterval
          /\ pc' = "render"]_vars

\* a colliding step has ended the loop with a whole interval left in the
\* accumulator
C16_Witness == gameOver /\ pc = "render" /\ acc >= cfg.moveInterval

\* C17: once the window is closed it stays closed, no step of the program
\* leads back to event polling, and the program takes no step after main
\* has returned: the frame in progress is the last.
C17_QuitEndsLoop ==
    [][~open => (~open' /\ pc' # "events" /\ pc # "done")]_vars

\* main has returned after a quit during a paused game
C17_Witness == pc = "done" /\ ~open /\ paused

\* C18: at the end of every frame the accumulator is below the move
\* interval.
C18_NoBacklog == pc = "render" => acc < cfg.moveInterval

\* C19: body length, plus 1 if growth is pending, equals 5 + score/10; the
\* score is a non-negative multiple of 10 and the body has at least 5
\* segments.
C19_LengthMatchesScore ==
    /\ Len(snake.body) + (IF snake.growNext THEN 1 ELSE 0) = 5 + (score \div 10)
    /\ score >= 0 /\ score % 10 = 0
    /\ Len(snake.body) >= 5

\* two foods eaten and both growths applied
C19_Witness == score = 20 /\ Len(snake.body) = 7 /\ ~snake.growNext

\* C15: food placement always returns: the program never spins in
\* placeFood with every cell of the grid occupied by the snake.
C15_PlacementReturns == pc # "placeFood"

Max(a, b) == IF a >= b THEN a ELSE b

\* C20: once key events stop arriving in a running session and frames keep
\* coming, the game is eventually over, and it is over by the time the
\* snake has made max(cols, rows) steps.
C20_IdleEndsGame ==
    /\ [](idleSteps >= Max(cfg.cols, cfg.rows) => gameOver)
    /\ (idleSteps >= 0 /\ ~paused /\ ~gameOver) ~> gameOver

\* the part of C20 the program keeps: a session left alone is over after at
\* most max(cols, rows) steps unless it is spinning in placeFood
C20_IdleStepsBounded ==
    /\ idleSteps <= Max(cfg.cols, cfg.rows)
    /\ idleSteps >= Max(cfg.cols, cfg.rows) => gameOver

C20_IdleEndsGameOrSpins ==
    (idleSteps >= 0 /\ ~paused /\ ~gameOver) ~> (gameOver \/ pc = "placeFood")

====
